---- MODULE Spec2Model ----
(***************************************************************************)
(* Model of SEC_API (src/SEC_API.py): five stateless class methods, each   *)
(* one HTTP GET, one JSON parse and one reshaping of the parsed document   *)
(* into a pandas DataFrame.                                                *)
(*                                                                         *)
(* Representation                                                          *)
(*   - a JSON object whose iteration order the code relies on is a         *)
(*     sequence of <<key, value>> pairs (a Python dict keeps the order of  *)
(*     the document);                                                      *)
(*   - a JSON object the code only looks keys up in is a function from     *)
(*     the keys that are present;                                          *)
(*   - a string the code sorts or formats is a sequence of one-character   *)
(*     strings; other strings are TLA+ strings;                            *)
(*   - a DataFrame is its column sequence and its row sequence, a row      *)
(*     being a function from the columns to the cell values;               *)
(*   - a call that raises is a record naming the exception.                *)
(***************************************************************************)
EXTENDS Integers, Sequences, FiniteSets, TLC

VARIABLES pc, op, status, is_json, parse_cik, raw_json, result, requests

vars == <<pc, op, status, is_json, parse_cik, raw_json, result, requests>>

(***************************************************************************)
(* Bounds of the explored inputs.                                          *)
(***************************************************************************)
MaxObs == 2
MaxData == 2
MaxFilings == 2
MaxTickers == 11

\* the width the identifier is padded to (str.pad(10, ...))
PadWidth == 10

(***************************************************************************)
(* Generic helpers.                                                        *)
(***************************************************************************)
Range(s) == {s[i] : i \in 1..Len(s)}

RECURSIVE SumSeq(_)
SumSeq(s) == IF s = <<>> THEN 0 ELSE Head(s) + SumSeq(Tail(s))

RECURSIVE Concat(_)
Concat(ss) == IF ss = <<>> THEN <<>> ELSE Head(ss) \o Concat(Tail(ss))

\* All sequences without repetition over the set S (every order of every subset).
RECURSIVE DistinctSeqs(_)
DistinctSeqs(S) ==
    {<<>>} \cup UNION {{<<x>> \o t : t \in DistinctSeqs(S \ {x})} : x \in S}

(***************************************************************************)
(* Python values.                                                          *)
(***************************************************************************)
\* np.nan, the missing-value marker
NaN == <<"NaN">>

\* the code points of the characters that occur, in increasing order
Alphabet ==
    <<"0", "1", "2", "3", "4", "5", "6", "7", "8", "9",
      "C", "D", "I", "K", "N",
      "a", "c", "d", "e", "f", "g", "i", "l", "m", "n", "o", "r", "s", "t", "u",
      "z">>

Ord(c) == CHOOSE i \in 1..Len(Alphabet) : Alphabet[i] = c

\* Python's str < str: lexicographic by code point, a proper prefix is smaller
RECURSIVE StrLess(_, _)
StrLess(a, b) ==
    IF b = <<>> THEN FALSE
    ELSE IF a = <<>> THEN TRUE
    ELSE IF Head(a) # Head(b) THEN Ord(Head(a)) < Ord(Head(b))
    ELSE StrLess(Tail(a), Tail(b))

\* sorted(keys) for a set of distinct strings
RECURSIVE Sorted(_)
Sorted(S) ==
    IF S = {} THEN <<>>
    ELSE LET m == CHOOSE x \in S : \A y \in S \ {x} : StrLess(x, y)
         IN  <<m>> \o Sorted(S \ {m})

Digits == <<"0", "1", "2", "3", "4", "5", "6", "7", "8", "9">>

\* str(n) for a non-negative int
RECURSIVE Str(_)
Str(n) == IF n < 10 THEN <<Digits[n + 1]>>
          ELSE Str(n \div 10) \o <<Digits[(n % 10) + 1]>>

\* variant of StrPad that fills on the right (side='right')
RECURSIVE StrPadRight(_, _, _)
StrPadRight(s, width, fill) ==
    IF Len(s) >= width THEN s ELSE StrPadRight(s \o <<fill>>, width, fill)

\* Series.str.pad(width, fillchar=fill): side defaults to 'left'
RECURSIVE StrPad(_, _, _)
StrPad(s, width, fill) ==
    IF Len(s) >= width THEN s ELSE StrPad(<<fill>> \o s, width, fill)

(***************************************************************************)
(* Ordered dicts as sequences of <<key, value>> pairs.                     *)
(***************************************************************************)
Keys(d) == [i \in 1..Len(d) |-> d[i][1]]
HasKey(d, k) == \E i \in 1..Len(d) : d[i][1] = k
Lookup(d, k) == d[CHOOSE i \in 1..Len(d) : d[i][1] = k][2]

\* the keys of a sequence of dicts, each once, in order of first appearance
RECURSIVE UnionKeys(_, _)
UnionKeys(ds, acc) ==
    IF ds = <<>> THEN acc
    ELSE UnionKeys(Tail(ds),
                   acc \o SelectSeq(Keys(Head(ds)), LAMBDA k : k \notin Range(acc)))

(***************************************************************************)
(* Results of a call.                                                      *)
(***************************************************************************)
DataFrame(cols, rows) ==
    [kind |-> "DataFrame", exc |-> "", columns |-> cols, rows |-> rows]
Raise(e) == [kind |-> "raise", exc |-> e, columns |-> <<>>, rows |-> <<>>]
NoResult == [kind |-> "none", exc |-> "", columns |-> <<>>, rows |-> <<>>]

Statuses == {200, 404}

(***************************************************************************)
(* requests.get(url).json(): the status of the response is never looked    *)
(* at; a body that is not JSON makes json() raise, any JSON body is        *)
(* handed to the reshaping code.                                           *)
(***************************************************************************)
NotJson == <<>>

(***************************************************************************)
(* get_companytickers                                                      *)
(***************************************************************************)
\* identifiers of one to ten decimal digits
CikPool == <<320193, 789019, 1045810, 7, 2147483647, 0, 1652044, 1018724,
             1326801, 12, 1067983, 999999999>>

CikOf(i) == CikPool[(i % Len(CikPool)) + 1]

ExtraModes == {"none", "first", "all"}

\* one entry of company_tickers.json, the i-th of the document (from 0)
TickerEntry(i, extra) ==
    << <<"cik_str", CikOf(i)>>, <<"ticker", <<"ticker", i>> >>,
       <<"title", <<"title", i>> >> >>
    \o (IF extra = "all" \/ (extra = "first" /\ i = 0)
        THEN << <<"exchange", <<"exchange", i>> >> >> ELSE <<>>)

\* company_tickers.json with n entries keyed "0", "1", ..., in that order
TickerDoc(n, extra) == [i \in 1..n |-> <<Str(i - 1), TickerEntry(i - 1, extra)>>]

TickerDocs == {TickerDoc(n, extra) : n \in 0..MaxTickers, extra \in ExtraModes}

\* dict.get(k, np.nan) as pandas applies it to a dict-valued column
DictGet(d, k) == IF HasKey(d, k) THEN Lookup(d, k) ELSE NaN

\* pd.DataFrame.from_records(data) for a dict of dicts, then .transpose()
\* and .reset_index(drop=True): from_records takes the columns of a dict
\* as sorted(data) and the index as the entries' keys in order of first
\* appearance; the transpose makes each sorted key one row.
FromRecordsTranspose(data) ==
    LET cols    == Sorted(Range(Keys(data)))
        entries == [i \in 1..Len(cols) |-> Lookup(data, cols[i])]
        index   == UnionKeys(entries, <<>>)
    IN  DataFrame(index,
                  [i \in 1..Len(cols) |->
                      [c \in Range(index) |-> DictGet(entries[i], c)]])

TickerColumns == <<"cik", "ticker", "title">>

\* df.columns = names: a length mismatch raises ValueError
SetColumns(df, names) ==
    IF Len(df.columns) # Len(names) THEN Raise("ValueError")
    ELSE DataFrame(names,
                   [i \in 1..Len(df.rows) |->
                       [c \in Range(names) |->
                           df.rows[i][df.columns[CHOOSE j \in 1..Len(names) :
                                                     names[j] = c]]]])

CikPrefix == <<"C", "I", "K">>

\* "CIK" + df["cik"].astype("str").str.pad(10, fillchar='0')
ParseCik(cik) == CikPrefix \o StrPad(Str(cik), PadWidth, "0")

get_companytickers(json, parse) ==
    LET df == SetColumns(FromRecordsTranspose(json), TickerColumns)
    IN  IF df.kind = "raise" THEN df
        ELSE IF parse
        THEN DataFrame(df.columns,
                       [i \in 1..Len(df.rows) |->
                           [df.rows[i] EXCEPT !["cik"] = ParseCik(@)]])
        ELSE df

CompanyTickers ==
    /\ pc = "idle"
    /\ \E st \in Statuses, parse \in BOOLEAN :
         /\ status' = st
         /\ parse_cik' = parse
         /\ \/ /\ is_json' = FALSE
               /\ raw_json' = NotJson
               /\ result' = Raise("JSONDecodeError")
            \/ \E doc \in TickerDocs :
                 /\ is_json' = TRUE
                 /\ raw_json' = doc
                 /\ result' = get_companytickers(doc, parse)
    /\ op' = "get_companytickers"
    /\ requests' = requests + 1
    /\ pc' = "done"

(***************************************************************************)
(* get_submissions                                                         *)
(***************************************************************************)
FilingFields == {<<"a", "c", "t">>, <<"f", "o", "r", "m">>, <<"s", "i", "z", "e">>}

SubmissionShapes == {"ok", "extra", "ragged", "no_recent", "no_filings"}

\* filings.recent: one array per field name, in the order given by fields;
\* every array has n elements, except that a ragged document has one more
\* element in the array of its last field
RecentSection(fields, n, shape) ==
    [k \in 1..Len(fields) |->
        <<fields[k],
          [i \in 1..(IF shape = "ragged" /\ k = Len(fields) THEN n + 1 ELSE n)
              |-> <<fields[k], i>>]>>]

SubmissionDoc(fields, n, shape) ==
    LET recent == RecentSection(fields, n, shape)
        base   == [cik |-> <<"cik">>]
    IN  CASE shape = "no_filings" -> base
          [] shape = "no_recent"  -> base @@ [filings |-> [files |-> <<>>]]
          [] shape = "extra"      ->
                base @@ [name |-> <<"name">>,
                         filings |-> [recent |-> recent, files |-> <<>>]]
          [] OTHER                -> base @@ [filings |-> [recent |-> recent]]

SubmissionDocs ==
    {SubmissionDoc(fields, n, shape) :
        fields \in DistinctSeqs(FilingFields), n \in 0..MaxFilings,
        shape \in SubmissionShapes}

\* variant of FromRecordsDict that names the columns in sorted order but
\* keeps the arrays in document order
FromRecordsDictUnsortedArrays(data) ==
    LET cols == Sorted(Range(Keys(data)))
        lens == {Len(data[k][2]) : k \in 1..Len(data)}
    IN  IF Cardinality(lens) > 1 THEN Raise("ValueError")
        ELSE IF data = <<>> THEN DataFrame(<<>>, <<>>)
        ELSE DataFrame(cols,
                       [i \in 1..(CHOOSE n \in lens : TRUE) |->
                           [c \in Range(cols) |->
                               data[CHOOSE j \in 1..Len(cols) : cols[j] = c][2][i]]])

\* pd.DataFrame.from_records(data) for a dict of lists: the columns are
\* sorted(data); arrays of different lengths raise ValueError; row i holds
\* element i of every array
FromRecordsDict(data) ==
    LET cols == Sorted(Range(Keys(data)))
        lens == {Len(data[k][2]) : k \in 1..Len(data)}
    IN  IF Cardinality(lens) > 1 THEN Raise("ValueError")
        ELSE IF data = <<>> THEN DataFrame(<<>>, <<>>)
        ELSE DataFrame(cols,
                       [i \in 1..(CHOOSE n \in lens : TRUE) |->
                           [c \in Range(cols) |-> Lookup(data, c)[i]]])

get_submissions(json) ==
    IF "filings" \notin DOMAIN json THEN Raise("KeyError")
    ELSE IF "recent" \notin DOMAIN json["filings"] THEN Raise("KeyError")
    ELSE FromRecordsDict(json["filings"]["recent"])

Submissions ==
    /\ pc = "idle"
    /\ \E st \in Statuses :
         /\ status' = st
         /\ \/ /\ is_json' = FALSE
               /\ raw_json' = NotJson
               /\ result' = Raise("JSONDecodeError")
            \/ \E doc \in SubmissionDocs :
                 /\ is_json' = TRUE
                 /\ raw_json' = doc
                 /\ result' = get_submissions(doc)
    /\ op' = "get_submissions"
    /\ requests' = requests + 1
    /\ pc' = "done"
    /\ UNCHANGED parse_cik

(***************************************************************************)
(* Observations, shared by get_companyconcept and get_companyfacts         *)
(***************************************************************************)
ObsFields == <<"end", "val", "accn", "fy", "fp", "form", "filed", "frame">>

\* the observation at position i of the array found under the ancestry id;
\* the first observation of an array lacks the field named by missing, and
\* with extra every observation has a field the code does not know
Observation(id, i, missing, extra) ==
    LET present == (Range(ObsFields) \ (IF i = 1 THEN {missing} ELSE {}))
                   \cup (IF extra THEN {"start"} ELSE {})
    IN  [f \in present |-> <<f>> \o id \o <<i>>]

\* variant of ObsGet without the default (row_list.get(f) gives None)
ObsGetNone(row_list, f) == IF f \in DOMAIN row_list THEN row_list[f] ELSE <<"None">>

\* row_list.get(f, np.nan)
ObsGet(row_list, f) == IF f \in DOMAIN row_list THEN row_list[f] ELSE NaN

\* pd.DataFrame.from_records(df_list) for a list of dicts that all have the
\* keys cols: an empty list gives a frame without columns
FromRecords(df_list, cols) ==
    IF df_list = <<>> THEN DataFrame(<<>>, <<>>) ELSE DataFrame(cols, df_list)

UnitNames == {"USD", "shares"}

\* a unit mapping: the units named by unitSeq, in that order, each with
\* lens[unit] observations
UnitsSection(id, unitSeq, lens, missing, extra) ==
    [u \in 1..Len(unitSeq) |->
        <<unitSeq[u],
          [i \in 1..lens[unitSeq[u]] |->
              Observation(id \o <<unitSeq[u]>>, i, missing, extra)]>>]

(***************************************************************************)
(* get_companyconcept                                                      *)
(***************************************************************************)
ConceptMeta == <<"cik", "taxonomy", "tag", "label", "description", "entityName">>

ConceptColumns == ConceptMeta \o <<"units">> \o ObsFields

ConceptShapes == {"ok", "extra", "no_label", "no_units"}

ConceptMissing == {"none"} \cup Range(ObsFields)

ConceptDoc(unitSeq, lens, missing, shape) ==
    LET meta  == [k \in Range(ConceptMeta) \ (IF shape = "no_label"
                                               THEN {"label"} ELSE {})
                     |-> <<k>>]
        units == [units |-> UnitsSection(<<>>, unitSeq, lens, missing,
                                         shape = "extra")]
    IN  CASE shape = "no_units" -> meta
          [] shape = "extra"    -> meta @@ units @@ [extraKey |-> <<"x">>]
          [] OTHER              -> meta @@ units

ConceptDocs ==
    {ConceptDoc(unitSeq, lens, missing, shape) :
        unitSeq \in DistinctSeqs(UnitNames), lens \in [UnitNames -> 0..MaxObs],
        missing \in ConceptMissing, shape \in ConceptShapes}

\* the dict built at lines 77-93 for one (unit, observation) pair
ConceptRow(json, key_units, row_list) ==
    [c \in Range(ConceptColumns) |->
        IF c \in Range(ConceptMeta) THEN json[c]
        ELSE IF c = "units" THEN key_units
        ELSE ObsGet(row_list, c)]

\* variant of ConceptPairs that walks every unit array backwards
ConceptPairsReversed(json) ==
    Concat([u \in 1..Len(json["units"]) |->
               [i \in 1..Len(json["units"][u][2]) |->
                   <<json["units"][u][1],
                     json["units"][u][2][Len(json["units"][u][2]) + 1 - i]>>]])

\* the (key_units, row_list) pairs in the order of the two for clauses
ConceptPairs(json) ==
    Concat([u \in 1..Len(json["units"]) |->
               [i \in 1..Len(json["units"][u][2]) |->
                   <<json["units"][u][1], json["units"][u][2][i]>>]])

get_companyconcept(json) ==
    IF "units" \notin DOMAIN json THEN Raise("KeyError")
    ELSE LET pairs == ConceptPairs(json)
         IN  IF pairs # <<>> /\ ~(Range(ConceptMeta) \subseteq DOMAIN json)
             THEN Raise("KeyError")
             ELSE FromRecords([k \in 1..Len(pairs) |->
                                  ConceptRow(json, pairs[k][1], pairs[k][2])],
                              ConceptColumns)

CompanyConcept ==
    /\ pc = "idle"
    /\ \E st \in Statuses :
         /\ status' = st
         /\ \/ /\ is_json' = FALSE
               /\ raw_json' = NotJson
               /\ result' = Raise("JSONDecodeError")
            \/ \E doc \in ConceptDocs :
                 /\ is_json' = TRUE
                 /\ raw_json' = doc
                 /\ result' = get_companyconcept(doc)
    /\ op' = "get_companyconcept"
    /\ requests' = requests + 1
    /\ pc' = "done"
    /\ UNCHANGED parse_cik

(***************************************************************************)
(* get_companyfacts                                                        *)
(***************************************************************************)
TaxonomyNames == {"us-gaap", "dei"}

TagNames == {"Assets", "Revenues"}

FactsColumns ==
    <<"cik", "entityName", "taxonomy", "tag", "label", "description", "units">>
    \o ObsFields

FactsShapes == {"ok", "extra", "no_cik", "no_facts"}

FactsMissing == {"none", "fy"}

\* one tag object: its label, its description and its unit mapping
TagObject(key_taxonomy, key_tag, unitSeq, lens, missing, extra) ==
    [label |-> <<"label", key_taxonomy, key_tag>>,
     description |-> <<"description", key_taxonomy, key_tag>>,
     units |-> UnitsSection(<<key_taxonomy, key_tag>>, unitSeq, lens,
                            missing, extra)]
    @@ (IF extra THEN [extraKey |-> <<"x">>] ELSE <<>>)

\* the facts section: the taxonomies of taxSeq, in that order, the taxonomy
\* x holding the tags of tagsOf[x], in that order
FactsSection(taxSeq, tagsOf, unitSeq, lens, missing, extra) ==
    [t \in 1..Len(taxSeq) |->
        <<taxSeq[t],
          [g \in 1..Len(tagsOf[taxSeq[t]]) |->
              <<tagsOf[taxSeq[t]][g],
                TagObject(taxSeq[t], tagsOf[taxSeq[t]][g], unitSeq, lens,
                          missing, extra)>>]>>]

FactsDoc(taxSeq, tagsOf, unitSeq, lens, missing, shape) ==
    LET facts == [facts |-> FactsSection(taxSeq, tagsOf, unitSeq, lens, missing,
                                         shape = "extra")]
        name  == [entityName |-> <<"entityName">>]
        cik   == [cik |-> <<"cik">>]
    IN  CASE shape = "no_facts" -> cik @@ name
          [] shape = "no_cik"   -> name @@ facts
          [] shape = "extra"    -> cik @@ name @@ facts @@ [extraKey |-> <<"x">>]
          [] OTHER              -> cik @@ name @@ facts

FactsDocs ==
    {FactsDoc(taxSeq, tagsOf, unitSeq, lens, missing, shape) :
        taxSeq \in DistinctSeqs(TaxonomyNames),
        tagsOf \in [TaxonomyNames -> DistinctSeqs(TagNames)],
        unitSeq \in DistinctSeqs(UnitNames), lens \in [UnitNames -> 0..MaxObs],
        missing \in FactsMissing, shape \in FactsShapes}

\* the dict built at lines 116-132 for one innermost observation
FactsRow(json, key_taxonomy, key_tag, value_tag, key_units, row_list) ==
    [c \in Range(FactsColumns) |->
        CASE c \in {"cik", "entityName"}    -> json[c]
          [] c = "taxonomy"                 -> key_taxonomy
          [] c = "tag"                      -> key_tag
          [] c \in {"label", "description"} -> value_tag[c]
          [] c = "units"                    -> key_units
          [] OTHER                          -> ObsGet(row_list, c)]

\* variant of FactsLeaves in which value_tag is the last tag of the taxonomy
FactsLeavesStaleTag(json) ==
    LET facts == json["facts"]
    IN  Concat([t \in 1..Len(facts) |->
          Concat([g \in 1..Len(facts[t][2]) |->
            Concat([u \in 1..Len(facts[t][2][g][2]["units"]) |->
              [i \in 1..Len(facts[t][2][g][2]["units"][u][2]) |->
                  [key_taxonomy |-> facts[t][1],
                   key_tag      |-> facts[t][2][g][1],
                   value_tag    |-> facts[t][2][Len(facts[t][2])][2],
                   key_units    |-> facts[t][2][g][2]["units"][u][1],
                   row_list     |-> facts[t][2][g][2]["units"][u][2][i]]]])])])

\* the loop variables of the four for clauses, in iteration order
FactsLeaves(json) ==
    LET facts == json["facts"]
    IN  Concat([t \in 1..Len(facts) |->
          Concat([g \in 1..Len(facts[t][2]) |->
            Concat([u \in 1..Len(facts[t][2][g][2]["units"]) |->
              [i \in 1..Len(facts[t][2][g][2]["units"][u][2]) |->
                  [key_taxonomy |-> facts[t][1],
                   key_tag      |-> facts[t][2][g][1],
                   value_tag    |-> facts[t][2][g][2],
                   key_units    |-> facts[t][2][g][2]["units"][u][1],
                   row_list     |-> facts[t][2][g][2]["units"][u][2][i]]]])])])

get_companyfacts(json) ==
    IF "facts" \notin DOMAIN json THEN Raise("KeyError")
    ELSE LET leaves == FactsLeaves(json)
         IN  IF leaves # <<>> /\ ~({"cik", "entityName"} \subseteq DOMAIN json)
             THEN Raise("KeyError")
             ELSE FromRecords(
                      [k \in 1..Len(leaves) |->
                          FactsRow(json, leaves[k].key_taxonomy, leaves[k].key_tag,
                                   leaves[k].value_tag, leaves[k].key_units,
                                   leaves[k].row_list)],
                      FactsColumns)

CompanyFacts ==
    /\ pc = "idle"
    /\ \E st \in Statuses :
         /\ status' = st
         /\ \/ /\ is_json' = FALSE
               /\ raw_json' = NotJson
               /\ result' = Raise("JSONDecodeError")
            \/ \E doc \in FactsDocs :
                 /\ is_json' = TRUE
                 /\ raw_json' = doc
                 /\ result' = get_companyfacts(doc)
    /\ op' = "get_companyfacts"
    /\ requests' = requests + 1
    /\ pc' = "done"
    /\ UNCHANGED parse_cik

(***************************************************************************)
(* get_frames                                                              *)
(***************************************************************************)
FrameMeta == <<"taxonomy", "tag", "ccp", "uom", "label", "description">>

FrameFields == <<"accn", "cik", "entityName", "loc", "end", "val">>

FrameColumns == FrameMeta \o FrameFields

FrameShapes == {"ok", "extra", "no_ccp", "no_label", "no_data"}

FrameMissing == {"none"} \cup Range(FrameFields)

\* entry i of the data array; the first entry lacks the field named by missing
FrameEntry(i, missing, extra) ==
    LET present == (Range(FrameFields) \ (IF i = 1 THEN {missing} ELSE {}))
                   \cup (IF extra THEN {"start"} ELSE {})
    IN  [f \in present |-> <<f, i>>]

FrameDoc(m, missing, shape) ==
    LET absent == CASE shape = "no_ccp"   -> {"ccp"}
                    [] shape = "no_label" -> {"label"}
                    [] OTHER              -> {}
        meta   == [k \in Range(FrameMeta) \ absent |-> <<k>>]
        data   == [data |-> [i \in 1..m |-> FrameEntry(i, missing, shape = "extra")]]
    IN  CASE shape = "no_data" -> meta
          [] shape = "extra"   -> meta @@ data @@ [pts |-> <<"pts">>]
          [] OTHER             -> meta @@ data

FrameDocs ==
    {FrameDoc(m, missing, shape) :
        m \in 0..MaxData, missing \in FrameMissing, shape \in FrameShapes}

\* variant of FrameRow that puts the description in the label column
FrameRowLabelSwapped(json, row_list) ==
    [c \in Range(FrameColumns) |->
        IF c = "label" THEN json["description"]
        ELSE IF c \in Range(FrameMeta) THEN json[c] ELSE ObsGet(row_list, c)]

\* the dict built at lines 161-174 for one entry of the data array
FrameRow(json, row_list) ==
    [c \in Range(FrameColumns) |->
        IF c \in Range(FrameMeta) THEN json[c] ELSE ObsGet(row_list, c)]

\* variant of get_frames that reads ccp with a default, like the entry fields
get_frames_ccp_default(json) ==
    IF "data" \notin DOMAIN json THEN Raise("KeyError")
    ELSE IF json["data"] # <<>>
            /\ ~(Range(FrameMeta) \ {"ccp"} \subseteq DOMAIN json)
    THEN Raise("KeyError")
    ELSE FromRecords([i \in 1..Len(json["data"]) |->
                         [c \in Range(FrameColumns) |->
                             IF c = "ccp" THEN ObsGet(json, c)
                             ELSE IF c \in Range(FrameMeta) THEN json[c]
                             ELSE ObsGet(json["data"][i], c)]],
                     FrameColumns)

get_frames(json) ==
    IF "data" \notin DOMAIN json THEN Raise("KeyError")
    ELSE IF json["data"] # <<>> /\ ~(Range(FrameMeta) \subseteq DOMAIN json)
    THEN Raise("KeyError")
    ELSE FromRecords([i \in 1..Len(json["data"]) |-> FrameRow(json, json["data"][i])],
                     FrameColumns)

Frames ==
    /\ pc = "idle"
    /\ \E st \in Statuses :
         /\ status' = st
         /\ \/ /\ is_json' = FALSE
               /\ raw_json' = NotJson
               /\ result' = Raise("JSONDecodeError")
            \/ \E doc \in FrameDocs :
                 /\ is_json' = TRUE
                 /\ raw_json' = doc
                 /\ result' = get_frames(doc)
    /\ op' = "get_frames"
    /\ requests' = requests + 1
    /\ pc' = "done"
    /\ UNCHANGED parse_cik

(***************************************************************************)
(* Properties                                                              *)
(***************************************************************************)
Done(name) == pc = "done" /\ op = name /\ is_json

\* p comes before q in nested iteration order
LexLess(p, q) ==
    \E k \in 1..Len(p) : p[k] < q[k] /\ \A j \in 1..(k - 1) : p[j] = q[j]

\* the position in S of p, counting from 1
RankIn(S, p) == 1 + Cardinality({q \in S : LexLess(q, p)})

FactsValid(json) == {"cik", "entityName", "facts"} \subseteq DOMAIN json

UnitsAt(facts, t, g) == facts[t][2][g][2]["units"]

\* <<taxonomy, tag, unit, observation>> index of every innermost observation
FactsPositions(facts) ==
    UNION {UNION {UNION {{<<t, g, u, i>> :
                             i \in 1..Len(UnitsAt(facts, t, g)[u][2])} :
                         u \in 1..Len(UnitsAt(facts, t, g))} :
                  g \in 1..Len(facts[t][2])} :
           t \in 1..Len(facts)}

FactsCount(facts) ==
    SumSeq([t \in 1..Len(facts) |->
        SumSeq([g \in 1..Len(facts[t][2]) |->
            SumSeq([u \in 1..Len(UnitsAt(facts, t, g)) |->
                Len(UnitsAt(facts, t, g)[u][2])])])])

\* C1: for a valid company-facts document get_companyfacts returns one row
\* per innermost observation (the row count is the sum of the lengths of all
\* observation arrays), in taxonomy, tag, unit, observation order of the
\* document; each row carries the names of its taxonomy, tag and unit, the
\* label and description of its tag, the document's cik and entityName and
\* the fields of its own observation.
C1_FactsOneRowPerObservation ==
    (Done("get_companyfacts") /\ FactsValid(raw_json)) =>
        LET facts == raw_json["facts"]
            P     == FactsPositions(facts)
        IN  /\ result.kind = "DataFrame"
            /\ Len(result.rows) = FactsCount(facts)
            /\ \A p \in P :
                 LET row == result.rows[RankIn(P, p)]
                     tag == facts[p[1]][2][p[2]]
                     obs == UnitsAt(facts, p[1], p[2])[p[3]][2][p[4]]
                 IN  /\ row["taxonomy"] = facts[p[1]][1]
                     /\ row["tag"] = tag[1]
                     /\ row["label"] = tag[2]["label"]
                     /\ row["description"] = tag[2]["description"]
                     /\ row["units"] = UnitsAt(facts, p[1], p[2])[p[3]][1]
                     /\ row["cik"] = raw_json["cik"]
                     /\ row["entityName"] = raw_json["entityName"]
                     /\ \A f \in DOMAIN obs \cap Range(ObsFields) :
                          row[f] = obs[f]

\* two taxonomies, two units and rows that differ in taxonomy, tag and unit
C1_Witness ==
    /\ Done("get_companyfacts")
    /\ result.kind = "DataFrame"
    /\ Len(raw_json["facts"]) = 2
    /\ Len(result.rows) >= 4
    /\ \E i, j, k \in 1..Len(result.rows) :
         /\ i < j /\ j < k
         /\ result.rows[i]["units"] # result.rows[j]["units"]
         /\ result.rows[i]["taxonomy"] = result.rows[j]["taxonomy"]
         /\ result.rows[j]["taxonomy"] # result.rows[k]["taxonomy"]
         /\ result.rows[j]["label"] # result.rows[k]["label"]

ConceptValid(json) == Range(ConceptMeta) \cup {"units"} \subseteq DOMAIN json

ConceptPositions(units) ==
    UNION {{<<u, i>> : i \in 1..Len(units[u][2])} : u \in 1..Len(units)}

\* C2: for a valid company-concept document get_companyconcept returns one
\* row per (unit, observation) pair (the row count is the sum of the lengths
\* of the unit arrays), in unit order and then array order of the document;
\* each row's units is the name of the unit of its observation, and every
\* row carries the document's cik, taxonomy, tag, label, description and
\* entityName.
C2_ConceptOneRowPerPair ==
    (Done("get_companyconcept") /\ ConceptValid(raw_json)) =>
        LET units == raw_json["units"]
            P     == ConceptPositions(units)
        IN  /\ result.kind = "DataFrame"
            /\ Len(result.rows) = SumSeq([u \in 1..Len(units) |-> Len(units[u][2])])
            /\ \A p \in P :
                 LET row == result.rows[RankIn(P, p)]
                     obs == units[p[1]][2][p[2]]
                 IN  /\ row["units"] = units[p[1]][1]
                     /\ \A c \in Range(ConceptMeta) : row[c] = raw_json[c]
                     /\ \A f \in DOMAIN obs \cap Range(ObsFields) :
                          row[f] = obs[f]

\* units {"USD": [obs1, obs2], "shares": [obs3]}: three rows, two of USD
C2_Witness ==
    /\ Done("get_companyconcept")
    /\ result.kind = "DataFrame"
    /\ Keys(raw_json["units"]) = <<"USD", "shares">>
    /\ Len(result.rows) = 3
    /\ result.rows[1]["units"] = "USD"
    /\ result.rows[2]["units"] = "USD"
    /\ result.rows[3]["units"] = "shares"
    /\ result.rows[1]["val"] # result.rows[2]["val"]

FrameValid(json) == Range(FrameMeta) \cup {"data"} \subseteq DOMAIN json

FlatteningOps == {"get_companyconcept", "get_companyfacts", "get_frames"}

ValidFor(name, json) ==
    CASE name = "get_companyconcept" -> ConceptValid(json)
      [] name = "get_companyfacts"   -> FactsValid(json)
      [] OTHER                       -> FrameValid(json)

\* the columns the specification declares for each flattening operation
DeclaredColumns(name) ==
    IF name = "get_frames"
    THEN {"taxonomy", "tag", "ccp", "uom", "label", "description",
          "accn", "cik", "entityName", "loc", "end", "val"}
    ELSE {"cik", "taxonomy", "tag", "label", "description", "entityName",
          "units", "end", "val", "accn", "fy", "fp", "form", "filed", "frame"}

\* the optional per-record fields of each flattening operation
RecordFields(name) ==
    IF name = "get_frames"
    THEN {"accn", "cik", "entityName", "loc", "end", "val"}
    ELSE {"end", "val", "accn", "fy", "fp", "form", "filed", "frame"}

\* the upstream records of the document, in the order they are flattened
SourceRecords(name, json) ==
    CASE name = "get_companyconcept" ->
            [k \in 1..Len(ConceptPairs(json)) |-> ConceptPairs(json)[k][2]]
      [] name = "get_companyfacts"   ->
            [k \in 1..Len(FactsLeaves(json)) |-> FactsLeaves(json)[k].row_list]
      [] OTHER                       -> json["data"]

\* C3: in get_companyconcept, get_companyfacts and get_frames every row
\* carries the complete declared column set of the operation, the same for
\* all rows of the call; an upstream record that lacks an optional field
\* does not make the call fail and its row holds the missing-value marker
\* in that column.
C3_CompleteColumns ==
    \A name \in FlatteningOps :
        (Done(name) /\ ValidFor(name, raw_json)) =>
            LET src == SourceRecords(name, raw_json)
            IN  /\ result.kind = "DataFrame"
                /\ Len(result.rows) = Len(src)
                /\ src # <<>> => Range(result.columns) = DeclaredColumns(name)
                /\ \A k \in 1..Len(src) :
                     /\ DOMAIN result.rows[k] = DeclaredColumns(name)
                     /\ \A f \in RecordFields(name) \ DOMAIN src[k] :
                          result.rows[k][f] = NaN

\* a call whose first observation lacks "fy" and whose second has it
C3_Witness ==
    /\ Done("get_companyfacts")
    /\ result.kind = "DataFrame"
    /\ \E i, j \in 1..Len(result.rows) :
         /\ "fy" \notin DOMAIN SourceRecords(op, raw_json)[i]
         /\ result.rows[i]["fy"] = NaN
         /\ result.rows[j]["fy"] # NaN

RecentValid(json) ==
    /\ "filings" \in DOMAIN json
    /\ "recent" \in DOMAIN json["filings"]
    /\ \A j, k \in 1..Len(json["filings"]["recent"]) :
         Len(json["filings"]["recent"][j][2]) = Len(json["filings"]["recent"][k][2])

\* C4: for a submissions document whose filings.recent section is a set of
\* parallel arrays all of length N, get_submissions returns N rows in array
\* order with one column per upstream field name, and row i of the column of
\* a field holds element i of that field's array.
C4_SubmissionsRows ==
    (Done("get_submissions") /\ RecentValid(raw_json)) =>
        LET recent == raw_json["filings"]["recent"]
        IN  /\ result.kind = "DataFrame"
            /\ Range(result.columns) = Range(Keys(recent))
            /\ Len(result.columns) = Len(recent)
            /\ \A k \in 1..Len(recent) :
                 /\ Len(result.rows) = Len(recent[k][2])
                 /\ \A i \in 1..Len(result.rows) :
                      /\ DOMAIN result.rows[i] = Range(Keys(recent))
                      /\ result.rows[i][recent[k][1]] = recent[k][2][i]

\* three fields, upstream not in alphabetical order, two filings
C4_Witness ==
    /\ Done("get_submissions")
    /\ result.kind = "DataFrame"
    /\ Len(result.rows) = 2
    /\ Len(result.columns) = 3
    /\ Keys(raw_json["filings"]["recent"]) # result.columns
    /\ result.rows[1] # result.rows[2]

\* C5: for a frame document whose data array has M entries get_frames
\* returns M rows in the order of the data array; every row carries the
\* document's taxonomy, tag, uom, label and description, and row i carries
\* the accn, cik, entityName, loc, end and val of data entry i.
C5_FramesRows ==
    (Done("get_frames") /\ FrameValid(raw_json)) =>
        LET data == raw_json["data"]
        IN  /\ result.kind = "DataFrame"
            /\ Len(result.rows) = Len(data)
            /\ \A i \in 1..Len(data) :
                 /\ \A c \in {"taxonomy", "tag", "uom", "label", "description"} :
                      result.rows[i][c] = raw_json[c]
                 /\ \A f \in DOMAIN data[i] \cap
                             {"accn", "cik", "entityName", "loc", "end", "val"} :
                      result.rows[i][f] = data[i][f]

\* two data entries, two rows with their own accession numbers
C5_Witness ==
    /\ Done("get_frames")
    /\ result.kind = "DataFrame"
    /\ Len(raw_json["data"]) = 2
    /\ Len(result.rows) = 2
    /\ result.rows[1]["accn"] = raw_json["data"][1]["accn"]
    /\ result.rows[2]["accn"] = raw_json["data"][2]["accn"]
    /\ result.rows[1]["accn"] # result.rows[2]["accn"]
    /\ result.rows[1]["label"] = result.rows[2]["label"]

\* C6: get_companytickers returns one row per entry of the upstream object,
\* in the order of the keys in the response document, with the columns cik,
\* ticker, title.
C6_UpstreamOrder ==
    (Done("get_companytickers") /\ result.kind = "DataFrame") =>
        /\ result.columns = <<"cik", "ticker", "title">>
        /\ Len(result.rows) = Len(raw_json)
        /\ \A i \in 1..Len(raw_json) :
             /\ result.rows[i]["ticker"] = Lookup(raw_json[i][2], "ticker")
             /\ result.rows[i]["title"] = Lookup(raw_json[i][2], "title")

RECURSIVE Pow10(_)
Pow10(k) == IF k = 0 THEN 1 ELSE 10 * Pow10(k - 1)

\* the j-th of the ten decimal digits of n, counted from the left
TenDigit(n, j) == Digits[((n \div Pow10(10 - j)) % 10) + 1]

\* the upstream identifier of the entry a row of the ticker table came from
UpstreamCik(json, row) ==
    Lookup(json[CHOOSE i \in 1..Len(json) :
                    Lookup(json[i][2], "ticker") = row["ticker"]][2], "cik_str")

\* C7: with parse_cik true every row's cik is "CIK" followed by the upstream
\* identifier in decimal, left-padded with zeros to exactly 10 digits; with
\* parse_cik false the cik column holds the raw upstream number.
C7_ParseCik ==
    (Done("get_companytickers") /\ result.kind = "DataFrame") =>
        \A i \in 1..Len(result.rows) :
            LET cik == result.rows[i]["cik"]
                id  == UpstreamCik(raw_json, result.rows[i])
            IN  IF parse_cik
                THEN /\ Len(cik) = 13
                     /\ SubSeq(cik, 1, 3) = <<"C", "I", "K">>
                     /\ \A j \in 1..10 : cik[3 + j] = TenDigit(id, j)
                ELSE cik = id

\* 320193 is rendered as CIK0000320193
C7_Witness ==
    /\ Done("get_companytickers")
    /\ parse_cik
    /\ result.kind = "DataFrame"
    /\ \E i \in 1..Len(result.rows) :
         /\ UpstreamCik(raw_json, result.rows[i]) = 320193
         /\ result.rows[i]["cik"] =
                <<"C", "I", "K", "0", "0", "0", "0", "3", "2", "0", "1", "9", "3">>

\* the exceptions of the transport layer
NetworkErrors == {"ConnectionError", "Timeout", "HTTPError", "JSONDecodeError"}

\* C8: when the HTTP response has a non-success status the call fails with a
\* NetworkError: it returns no table built from the body of the error
\* response, it does not report a format error, and it issues one request.
C8_NonSuccessIsNetworkError ==
    (pc = "done" /\ status # 200) =>
        /\ result.kind = "raise"
        /\ result.exc \in NetworkErrors
        /\ requests = 1

\* C9 as stated: ccp is optional; a frame document with a data array and the
\* other metadata but no ccp gives one row per data entry, and the call
\* fails with a format error only when the data array is absent.
C9_CcpOptional ==
    Done("get_frames") =>
        /\ (Range(FrameMeta) \ {"ccp"}) \cup {"data"} \subseteq DOMAIN raw_json
             => /\ result.kind = "DataFrame"
                /\ Len(result.rows) = Len(raw_json["data"])
        /\ result.exc = "KeyError" => "data" \notin DOMAIN raw_json

\* C9 amended: ccp is required like the other five metadata keys.  A JSON
\* frame document makes get_frames fail, with a KeyError, exactly when the
\* data array is absent or the data array is not empty and one of taxonomy,
\* tag, ccp, uom, label, description is absent; otherwise the call returns
\* one row per data entry.
C9_CcpRequired ==
    Done("get_frames") =>
        LET fails == \/ "data" \notin DOMAIN raw_json
                     \/ /\ raw_json["data"] # <<>>
                        /\ ~(Range(FrameMeta) \subseteq DOMAIN raw_json)
        IN  IF fails
            THEN result.kind = "raise" /\ result.exc = "KeyError"
            ELSE /\ result.kind = "DataFrame"
                 /\ Len(result.rows) = Len(raw_json["data"])

\* a frame document with data and every metadata key but ccp: KeyError
C9_Witness ==
    /\ Done("get_frames")
    /\ (Range(FrameMeta) \ {"ccp"}) \cup {"data"} \subseteq DOMAIN raw_json
    /\ "ccp" \notin DOMAIN raw_json
    /\ Len(raw_json["data"]) >= 1
    /\ result.kind = "raise"
    /\ result.exc = "KeyError"

Restrict(f, S) == [k \in DOMAIN f \cap S |-> f[k]]

\* the document without the fields the specification does not name
WithoutExtras(name, json) ==
    CASE name = "get_companytickers" ->
            [i \in 1..Len(json) |->
                <<json[i][1],
                  SelectSeq(json[i][2],
                            LAMBDA kv : kv[1] \in {"cik_str", "ticker", "title"})>>]
      [] name = "get_submissions" ->
            IF "filings" \in DOMAIN json
            THEN [Restrict(json, {"cik", "filings"})
                     EXCEPT !["filings"] = Restrict(@, {"recent"})]
            ELSE Restrict(json, {"cik", "filings"})
      [] name = "get_companyconcept" ->
            IF "units" \in DOMAIN json
            THEN [Restrict(json, Range(ConceptMeta) \cup {"units"})
                     EXCEPT !["units"] =
                        [u \in 1..Len(@) |->
                            <<@[u][1],
                              [i \in 1..Len(@[u][2]) |->
                                  Restrict(@[u][2][i], Range(ObsFields))]>>]]
            ELSE Restrict(json, Range(ConceptMeta) \cup {"units"})
      [] name = "get_companyfacts" ->
            IF "facts" \in DOMAIN json
            THEN [Restrict(json, {"cik", "entityName", "facts"})
                     EXCEPT !["facts"] =
                        [t \in 1..Len(@) |->
                            <<@[t][1],
                              [g \in 1..Len(@[t][2]) |->
                                  <<@[t][2][g][1],
                                    [Restrict(@[t][2][g][2],
                                              {"label", "description", "units"})
                                        EXCEPT !["units"] =
                                           [u \in 1..Len(@) |->
                                               <<@[u][1],
                                                 [i \in 1..Len(@[u][2]) |->
                                                     Restrict(@[u][2][i],
                                                              Range(ObsFields))]>>]]>>]>>]]
            ELSE Restrict(json, {"cik", "entityName", "facts"})
      [] OTHER ->
            IF "data" \in DOMAIN json
            THEN [Restrict(json, Range(FrameMeta) \cup {"data"})
                     EXCEPT !["data"] =
                        [i \in 1..Len(@) |-> Restrict(@[i], Range(FrameFields))]]
            ELSE Restrict(json, Range(FrameMeta) \cup {"data"})

Apply(name, json, parse) ==
    CASE name = "get_companytickers" -> get_companytickers(json, parse)
      [] name = "get_submissions"    -> get_submissions(json)
      [] name = "get_companyconcept" -> get_companyconcept(json)
      [] name = "get_companyfacts"   -> get_companyfacts(json)
      [] OTHER                       -> get_frames(json)

\* C10: additional fields in the upstream JSON are tolerated: when the
\* document without them gives a table, the document with them gives the
\* same rows.
C10_ExtraFieldsTolerated ==
    (pc = "done" /\ is_json) =>
        LET base == Apply(op, WithoutExtras(op, raw_json), parse_cik)
        IN  base.kind = "DataFrame" => result = base

Init ==
    /\ pc = "idle"
    /\ op = "none"
    /\ status = 0
    /\ is_json = FALSE
    /\ parse_cik = FALSE
    /\ raw_json = NotJson
    /\ result = NoResult
    /\ requests = 0

Next ==
    \/ CompanyTickers
    \/ Submissions
    \/ CompanyConcept
    \/ CompanyFacts
    \/ Frames

Spec == Init /\ [][Next]_vars

====
